---- MODULE Spec2Model ----
(***************************************************************************)
(* Model of the admission engine of the Gabe Slack agent                   *)
(* (src/src/volition_core.py): the bounded event store                     *)
(* InMemoryVolitionStore and the rule engine VolitionCore.handle_intent.   *)
(*                                                                         *)
(* Time is counted in ticks of 1/TicksPerSecond second, so that a          *)
(* timedelta with a fractional number of seconds exists and the            *)
(* truncation int(total_seconds()) is visible.  A text is a sequence of    *)
(* characters, so that str.strip() is computed and not assumed.            *)
(***************************************************************************)
EXTENDS Integers, Sequences, FiniteSets, TLC

\* ---------------------------------------------------------------- bounds

\* Largest clock value of a run.
MaxTime == 3

\* Largest store capacity (max_events) an engine is constructed with.
MaxCapacity == 2

\* Largest capacity of a store driven through its own interface, and the
\* most appends made on it: more than DefaultLimit, so that recent() cuts.
MaxStoreCapacity == 6

MaxAppends == 7

\* Largest limit passed to recent().
MaxLimit == 7

\* Largest clock value of a run with concurrent calls.
MaxConcTime == 1

\* Largest capacity of the store of an engine one user keeps calling: room
\* for three records of that user.
MaxRetryCapacity == 3

\* Largest clock value of a run of the Slack listeners.
MaxBotTime == 1

\* Ticks per second: datetime arithmetic is finer than one second.
TicksPerSecond == 2

\* ------------------------------------------------------ program constants

\* def recent(self, limit: int = 5)
DefaultLimit == 5

\* ----------------------------------------------------------------- inputs

Users == {"U1", "U2"}

Teams == {"T1", ""}

\* Texts as character sequences; " X" and "X" are equal after strip().
Texts == { <<"X">>, <<" ", "X">>, <<"Y">> }

CorrelationIds == {"c1"}

\* The trusted-workspace tuples an engine is constructed with.
TrustedChoices == { <<>>, <<"T1">> }

\* (cooldown, duplicate_window) pairs, in ticks: the window longer than the
\* cooldown (as the defaults are), and shorter than it.
DurationChoices == { <<1, 2>>, <<2, 1>> }

\* The pairs of an engine one user keeps calling: also no cooldown at all
\* under a duplicate window.
RetryDurations == DurationChoices \cup { <<0, 2>> }

\* The user who keeps resubmitting.
Resubmitter == "U1"

\* The pairs of an engine whose clock is not trusted: zero durations too.
SkewDurations == DurationChoices \cup { <<0, 0>> }

Whitespace == {" "}

\* The listener threads that call handle_intent on the one shared engine,
\* and the texts they are called with.
Threads == {"w1", "w2"}

ConcTexts == { <<"X">>, <<"Y">> }

\* The users whose records are put into the store directly (SeededSpec).
SeedUsers == {"U1"}

\* ------------------------------------------------------------------ state

VARIABLES
    trusted_workspace_ids,  \* VolitionCore.trusted_workspace_ids (a tuple)
    cooldown,               \* VolitionCore.cooldown, in ticks
    duplicate_window,       \* VolitionCore.duplicate_window, in ticks
    max_events,             \* the deque's maxlen
    events,                 \* InMemoryVolitionStore._events, oldest first
    clock,                  \* the value the injected clock returns
    request,                \* the arguments of the last completed call, or None
    result,                 \* the IntentResult that call returned, or None
    size_before,            \* the number of records that call found in the store
    appended,               \* every record passed to store.append by StoreAppend
    store_out,              \* the last direct store operation and what it returned
    last_accepted,          \* per user, the record of the last accepted intent, or None
    workers                 \* per listener thread: where its handle_intent call is

vars == <<trusted_workspace_ids, cooldown, duplicate_window, max_events,
          events, clock, request, result, size_before, appended, store_out,
          last_accepted, workers>>

last_call == <<request, result, size_before>>

engine == <<clock, request, result, size_before>>

driver == <<appended, store_out, last_accepted>>

config == <<trusted_workspace_ids, cooldown, duplicate_window, max_events>>

\* ------------------------------------------------------------- data model

\* @dataclass IntentRecord
IntentRecord(user_id, team_id, text, timestamp, correlation_id) ==
    [user_id |-> user_id, team_id |-> team_id, text |-> text,
     timestamp |-> timestamp, correlation_id |-> correlation_id]

\* @dataclass IntentResult; the message is its template and the number
\* formatted into it (none for the fixed messages).
IntentResult(accepted, message, memory) ==
    [accepted |-> accepted, message |-> message, memory |-> memory]

MsgUntrusted == [template |-> "I am scoped to trusted workspaces only.", args |-> <<>>]

MsgDuplicate == [template |-> "I already have that request on my queue.", args |-> <<>>]

MsgCooldown(remaining) ==
    [template |-> "Hold on - give me about {remaining} more seconds", args |-> <<remaining>>]

MsgAccepted == [template |-> "Intent acknowledged.", args |-> <<>>]

\* Optional values: None is the empty sequence, a value v is <<v>>.
None == <<>>

Some(v) == <<v>>

\* ---------------------------------------------------------------- helpers

Min(a, b) == IF a <= b THEN a ELSE b

Max(a, b) == IF a >= b THEN a ELSE b

\* list.reverse()
Reverse(s) == [i \in 1..Len(s) |-> s[Len(s) + 1 - i]]

\* The slice s[:limit] of Python: a negative limit counts from the end.
SliceTo(s, limit) ==
    IF limit >= 0
    THEN SubSeq(s, 1, Min(limit, Len(s)))
    ELSE SubSeq(s, 1, Max(Len(s) + limit, 0))

\* str.strip(): leading and trailing whitespace removed.
RECURSIVE LStrip(_)
LStrip(s) ==
    IF s # <<>> /\ Head(s) \in Whitespace THEN LStrip(Tail(s)) ELSE s

RECURSIVE RStrip(_)
RStrip(s) ==
    IF s # <<>> /\ s[Len(s)] \in Whitespace
    THEN RStrip(SubSeq(s, 1, Len(s) - 1))
    ELSE s

Strip(s) == RStrip(LStrip(s))

\* int(x) of a number of seconds given in ticks: truncation toward zero.
IntSeconds(ticks) ==
    IF ticks >= 0
    THEN ticks \div TicksPerSecond
    ELSE -((-ticks) \div TicksPerSecond)

\* `x in tuple`
InTuple(x, t) == \E i \in 1..Len(t) : t[i] = x

\* ------------------------------------------------ InMemoryVolitionStore

\* A deque that refuses the new element when full, instead of dropping
\* its oldest one.
DequeAppendKeepOldest(evs, record, maxlen) ==
    IF Len(evs) >= maxlen THEN evs ELSE Append(evs, record)

\* deque(maxlen=n).append(x): x becomes the newest; a full deque drops its
\* oldest element (a deque of maxlen 0 keeps nothing).
DequeAppend(evs, record, maxlen) ==
    LET grown == Append(evs, record)
    IN  IF Len(grown) > maxlen THEN Tail(grown) ELSE grown

\* recent() without the reverse(): oldest first.
RecentOldestFirst(evs, limit) == SliceTo(evs, limit)

\* recent(limit): list(self._events), reversed, sliced.
Recent(evs, limit) == SliceTo(Reverse(evs), limit)

\* last_for_user scanning from the oldest record: iterating self._events
\* instead of reversed(self._events).
RECURSIVE LastForUserOldest(_, _)
LastForUserOldest(evs, user_id) ==
    IF evs = <<>> THEN None
    ELSE IF Head(evs).user_id = user_id THEN Some(Head(evs))
    ELSE LastForUserOldest(Tail(evs), user_id)

\* last_for_user looking at the newest record of the store only.
LastForUserNewestOnly(evs, user_id) ==
    IF evs # <<>> /\ evs[Len(evs)].user_id = user_id
    THEN Some(evs[Len(evs)])
    ELSE None

\* last_for_user(user_id): the first match scanning reversed(self._events).
RECURSIVE LastForUser(_, _)
LastForUser(evs, user_id) ==
    IF evs = <<>> THEN None
    ELSE IF evs[Len(evs)].user_id = user_id THEN Some(evs[Len(evs)])
    ELSE LastForUser(SubSeq(evs, 1, Len(evs) - 1), user_id)

\* ---------------------------------------------------------- VolitionCore

\* The trust check left out.
UntrustedNever(trusted, team_id) == FALSE

\* The trust check without the `self.trusted_workspace_ids and` guard: an
\* empty tuple trusts nobody.
UntrustedWhenEmpty(trusted, team_id) == ~InTuple(team_id, trusted)

\* The trust check made on the ids joined into one string: the empty
\* team_id is a substring of it.
UntrustedSubstring(trusted, team_id) ==
    Len(trusted) > 0 /\ team_id # "" /\ ~InTuple(team_id, trusted)

\* if self.trusted_workspace_ids and team_id not in self.trusted_workspace_ids
Untrusted(trusted, team_id) ==
    Len(trusted) > 0 /\ ~InTuple(team_id, trusted)

\* The duplicate rule with `<` for `<=`: the boundary excluded.
IsDuplicateStrict(last, text, now, window) ==
    Strip(last.text) = Strip(text) /\ (now - last.timestamp) < window

\* last.text.strip() == text.strip() and (now - last.timestamp) <= duplicate_window
IsDuplicate(last, text, now, window) ==
    Strip(last.text) = Strip(text) /\ (now - last.timestamp) <= window

\* The cooldown rule applied only to a clock value not earlier than the
\* last record.
InCooldownForwardOnly(last, now, cool) ==
    now >= last.timestamp /\ (now - last.timestamp) <= cool

\* (now - last.timestamp) <= self.cooldown
InCooldown(last, now, cool) == (now - last.timestamp) <= cool

\* The remaining seconds rounded up instead of truncated.
RemainingSecondsCeil(last, now, cool) ==
    (cool - (now - last.timestamp) + TicksPerSecond - 1) \div TicksPerSecond

\* remaining = int((self.cooldown - (now - last.timestamp)).total_seconds())
RemainingSeconds(last, now, cool) ==
    IntSeconds(cool - (now - last.timestamp))

\* A snapshot that forgets the limit: the whole store, newest first.
MemoryUncut(evs) == Reverse(evs)

\* memory=self.store.recent()
Memory(evs) == Recent(evs, DefaultLimit)

\* A record built with user_id and team_id exchanged.
NewRecordSwapped(user_id, team_id, text, now, correlation_id) ==
    IntentRecord(team_id, user_id, text, now, correlation_id)

\* record = IntentRecord(user_id=..., timestamp=now, ...)
NewRecord(user_id, team_id, text, now, correlation_id) ==
    IntentRecord(user_id, team_id, text, now, correlation_id)

\* handle_intent with the cooldown rule tried before the duplicate rule.
OutcomeCooldownFirst(evs, now, user_id, team_id, text, correlation_id) ==
    LET last == LastForUser(evs, user_id)
        record == NewRecord(user_id, team_id, text, now, correlation_id)
        after == DequeAppend(evs, record, max_events)
    IN  IF Untrusted(trusted_workspace_ids, team_id)
        THEN [store |-> evs,
              result |-> IntentResult(FALSE, MsgUntrusted, Memory(evs))]
        ELSE IF last # None /\ InCooldown(last[1], now, cooldown)
        THEN [store |-> evs,
              result |-> IntentResult(FALSE,
                            MsgCooldown(RemainingSeconds(last[1], now, cooldown)),
                            Memory(evs))]
        ELSE IF last # None /\ IsDuplicate(last[1], text, now, duplicate_window)
        THEN [store |-> evs,
              result |-> IntentResult(FALSE, MsgDuplicate, Memory(evs))]
        ELSE [store |-> after,
              result |-> IntentResult(TRUE, MsgAccepted, Memory(after))]

\* handle_intent with the duplicate rule looking at every stored record of
\* the user instead of the last one.
OutcomeScansAll(evs, now, user_id, team_id, text, correlation_id) ==
    LET last == LastForUser(evs, user_id)
        record == NewRecord(user_id, team_id, text, now, correlation_id)
        after == DequeAppend(evs, record, max_events)
    IN  IF Untrusted(trusted_workspace_ids, team_id)
        THEN [store |-> evs,
              result |-> IntentResult(FALSE, MsgUntrusted, Memory(evs))]
        ELSE IF \E i \in 1..Len(evs) :
                   /\ evs[i].user_id = user_id
                   /\ IsDuplicate(evs[i], text, now, duplicate_window)
        THEN [store |-> evs,
              result |-> IntentResult(FALSE, MsgDuplicate, Memory(evs))]
        ELSE IF last # None /\ InCooldown(last[1], now, cooldown)
        THEN [store |-> evs,
              result |-> IntentResult(FALSE,
                            MsgCooldown(RemainingSeconds(last[1], now, cooldown)),
                            Memory(evs))]
        ELSE [store |-> after,
              result |-> IntentResult(TRUE, MsgAccepted, Memory(after))]

\* handle_intent with a rejection that restarts the windows: the user's
\* last record is stamped with the time of the rejected attempt.
OutcomeRejectionExtends(evs, now, user_id, team_id, text, correlation_id) ==
    LET last == LastForUser(evs, user_id)
        record == NewRecord(user_id, team_id, text, now, correlation_id)
        after == DequeAppend(evs, record, max_events)
        at == CHOOSE i \in 1..Len(evs) :
                  /\ evs[i].user_id = user_id
                  /\ \A j \in (i + 1)..Len(evs) : evs[j].user_id # user_id
        touched == [evs EXCEPT ![at].timestamp = now]
    IN  IF Untrusted(trusted_workspace_ids, team_id)
        THEN [store |-> evs,
              result |-> IntentResult(FALSE, MsgUntrusted, Memory(evs))]
        ELSE IF last # None /\ IsDuplicate(last[1], text, now, duplicate_window)
        THEN [store |-> touched,
              result |-> IntentResult(FALSE, MsgDuplicate, Memory(touched))]
        ELSE IF last # None /\ InCooldown(last[1], now, cooldown)
        THEN [store |-> touched,
              result |-> IntentResult(FALSE,
                            MsgCooldown(RemainingSeconds(last[1], now, cooldown)),
                            Memory(touched))]
        ELSE [store |-> after,
              result |-> IntentResult(TRUE, MsgAccepted, Memory(after))]

\* The outcome of one uninterrupted handle_intent call on store evs at
\* clock value now: the store it leaves and the result it returns.
Outcome(evs, now, user_id, team_id, text, correlation_id) ==
    LET last == LastForUser(evs, user_id)
        record == NewRecord(user_id, team_id, text, now, correlation_id)
        after == DequeAppend(evs, record, max_events)
    IN  IF Untrusted(trusted_workspace_ids, team_id)
        THEN [store |-> evs,
              result |-> IntentResult(FALSE, MsgUntrusted, Memory(evs))]
        ELSE IF last # None /\ IsDuplicate(last[1], text, now, duplicate_window)
        THEN [store |-> evs,
              result |-> IntentResult(FALSE, MsgDuplicate, Memory(evs))]
        ELSE IF last # None /\ InCooldown(last[1], now, cooldown)
        THEN [store |-> evs,
              result |-> IntentResult(FALSE,
                            MsgCooldown(RemainingSeconds(last[1], now, cooldown)),
                            Memory(evs))]
        ELSE [store |-> after,
              result |-> IntentResult(TRUE, MsgAccepted, Memory(after))]

\* The locals of a thread that is not inside handle_intent.
Idle ==
    [pc |-> "idle", args |-> None, now |-> 0, left |-> 0, stale |-> FALSE,
     reply |-> None, out |-> None]

\* ---------------------------------------------------------------- actions

Init ==
    /\ trusted_workspace_ids \in TrustedChoices
    /\ \E d \in DurationChoices : cooldown = d[1] /\ duplicate_window = d[2]
    /\ max_events \in 1..MaxCapacity
    /\ events = <<>>
    /\ clock = 0
    /\ request = None
    /\ result = None
    /\ size_before = 0
    /\ appended = <<>>
    /\ store_out = None
    /\ last_accepted = [u \in Users |-> None]
    /\ workers = [w \in Threads |-> Idle]

\* The clock moves on (FakeClock.advance; wall-clock time passing).
Tick ==
    /\ clock < MaxTime
    /\ clock' = clock + 1
    /\ UNCHANGED <<config, events, last_call, driver, workers>>

\* One handle_intent call run to completion with no other call interleaved.
HandleIntent(user_id, team_id, text, correlation_id) ==
    LET now == clock
        out == Outcome(events, now, user_id, team_id, text, correlation_id)
    IN  /\ events' = out.store
        /\ request' = Some([user_id |-> user_id, team_id |-> team_id,
                             text |-> text, correlation_id |-> correlation_id])
        /\ result' = Some(out.result)
        /\ size_before' = Len(events)
        /\ UNCHANGED <<config, clock, driver, workers>>

Call ==
    \E u \in Users, t \in Teams, x \in Texts, c \in CorrelationIds :
        HandleIntent(u, t, x, c)

Next == Tick \/ Call

Spec == Init /\ [][Next]_vars

\* ------------------------------------------- the store driven directly

\* A store of any capacity up to MaxStoreCapacity, with no engine calls.
StoreInit ==
    /\ trusted_workspace_ids = <<>>
    /\ cooldown = 0
    /\ duplicate_window = 0
    /\ max_events \in 1..MaxStoreCapacity
    /\ events = <<>>
    /\ clock = 0
    /\ request = None
    /\ result = None
    /\ size_before = 0
    /\ appended = <<>>
    /\ store_out = None
    /\ last_accepted = [u \in Users |-> None]
    /\ workers = [w \in Threads |-> Idle]

\* The store operation made before the one being made, and what it
\* returned: None before the first.
Previous ==
    IF store_out = None THEN None
    ELSE Some([op |-> store_out[1].op, arg |-> store_out[1].arg,
               out |-> store_out[1].out])

\* recent() reversing the deque itself instead of a copy of it.
StoreRecentInPlace(limit) ==
    /\ events' = Reverse(events)
    /\ store_out' = Some([op |-> "recent", arg |-> limit,
                          out |-> SliceTo(Reverse(events), limit),
                          prev |-> Previous])
    /\ UNCHANGED <<config, engine, appended, last_accepted, workers>>

\* store.append(record); the k-th record appended is stamped k, so that
\* any two appended records differ.
StoreAppend(user_id) ==
    LET record == IntentRecord(user_id, "T1", <<"X">>, Len(appended), "c1")
    IN  /\ Len(appended) < MaxAppends
        /\ events' = DequeAppend(events, record, max_events)
        /\ appended' = Append(appended, record)
        /\ store_out' = Some([op |-> "append", arg |-> user_id, out |-> None,
                              prev |-> Previous])
        /\ UNCHANGED <<config, engine, last_accepted, workers>>

\* store.recent(limit)
StoreRecent(limit) ==
    /\ store_out' = Some([op |-> "recent", arg |-> limit,
                          out |-> Recent(events, limit), prev |-> Previous])
    /\ UNCHANGED <<config, engine, events, appended, last_accepted, workers>>

\* store.last_for_user(user_id)
StoreLastForUser(user_id) ==
    /\ store_out' = Some([op |-> "last_for_user", arg |-> user_id,
                          out |-> LastForUser(events, user_id),
                          prev |-> Previous])
    /\ UNCHANGED <<config, engine, events, appended, last_accepted, workers>>

StoreNext ==
    \/ \E u \in Users : StoreAppend(u)
    \/ \E n \in 0..MaxLimit : StoreRecent(n)
    \/ \E u \in Users : StoreLastForUser(u)

StoreSpec == StoreInit /\ [][StoreNext]_vars

\* ------------------------------------- the engine on a store others fill

\* An engine constructed on a store of any capacity up to MaxStoreCapacity.
SeededInit ==
    /\ trusted_workspace_ids \in TrustedChoices
    /\ \E d \in DurationChoices : cooldown = d[1] /\ duplicate_window = d[2]
    /\ max_events \in 1..MaxStoreCapacity
    /\ events = <<>>
    /\ clock = 0
    /\ request = None
    /\ result = None
    /\ size_before = 0
    /\ appended = <<>>
    /\ store_out = None
    /\ last_accepted = [u \in Users |-> None]
    /\ workers = [w \in Threads |-> Idle]

\* core.store.append(record) by the engine's owner: the store is a public
\* attribute, and may be passed in already filled.
Seed(user_id) ==
    /\ events' = DequeAppend(events,
                     IntentRecord(user_id, "T1", <<"X">>, clock, "c1"), max_events)
    /\ UNCHANGED <<config, engine, driver, workers>>

SeededNext ==
    \/ \E u \in SeedUsers : Seed(u)
    \/ Call

SeededSpec == SeededInit /\ [][SeededNext]_vars

\* ------------------------------------ concurrent calls on one engine

\* The listeners of gabe_bot.register_routes run on a thread pool and call
\* the one VolitionCore without a lock.  A thread can be preempted between
\* any two of: the clock read, the creation of the reversed() iterator,
\* each step of the scan, the append, and the final recent().

\* What lines 83-98 decide from the record the scan returned: the reply of
\* a rejection, or None to go on to the append.
Verdict(last, text, now) ==
    IF last # None /\ IsDuplicate(last[1], text, now, duplicate_window)
    THEN Some([accepted |-> FALSE, message |-> MsgDuplicate])
    ELSE IF last # None /\ InCooldown(last[1], now, cooldown)
    THEN Some([accepted |-> FALSE,
               message |-> MsgCooldown(RemainingSeconds(last[1], now, cooldown))])
    ELSE None

\* The thread's locals after the scan returned `last`.
AfterLookup(w, last) ==
    LET verdict == Verdict(last, workers[w].args[1].text, workers[w].now)
    IN  IF verdict # None
        THEN [workers[w] EXCEPT !.pc = "snapshot", !.reply = verdict,
                                !.left = 0, !.stale = FALSE]
        ELSE [workers[w] EXCEPT !.pc = "append", !.left = 0, !.stale = FALSE]

\* handle_intent is entered: now = self._clock(), then the trust check,
\* which reads only the engine's own tuple.
Enter(w, user_id, team_id, text, correlation_id) ==
    /\ workers[w].pc = "idle"
    /\ workers' = [workers EXCEPT ![w] =
          [Idle EXCEPT
              !.args = Some([user_id |-> user_id, team_id |-> team_id,
                             text |-> text, correlation_id |-> correlation_id]),
              !.now = clock,
              !.pc = IF Untrusted(trusted_workspace_ids, team_id)
                     THEN "snapshot" ELSE "lookup",
              !.reply = IF Untrusted(trusted_workspace_ids, team_id)
                        THEN Some([accepted |-> FALSE, message |-> MsgUntrusted])
                        ELSE None]]
    /\ UNCHANGED <<config, events, engine, driver>>

\* last_for_user: reversed(self._events) creates the iterator, which
\* remembers the deque's length and its mutation counter.
StartScan(w) ==
    /\ workers[w].pc = "lookup"
    /\ workers' = [workers EXCEPT ![w].pc = "scan",
                                  ![w].left = Len(events),
                                  ![w].stale = FALSE]
    /\ UNCHANGED <<config, events, engine, driver>>

\* One step of the for loop: the iterator is exhausted (return None), or
\* finds the deque mutated since its creation (RuntimeError), or yields the
\* next older record, which is returned if it is the user's.
ScanNext(w) ==
    /\ workers[w].pc = "scan"
    /\ workers' = [workers EXCEPT ![w] =
          IF workers[w].left = 0 THEN AfterLookup(w, None)
          ELSE IF workers[w].stale
          THEN [workers[w] EXCEPT !.pc = "raised", !.left = 0, !.stale = FALSE]
          ELSE IF events[workers[w].left].user_id = workers[w].args[1].user_id
          THEN AfterLookup(w, Some(events[workers[w].left]))
          ELSE [workers[w] EXCEPT !.left = workers[w].left - 1]]
    /\ UNCHANGED <<config, events, engine, driver>>

\* self.store.append(record): every iterator open on the deque sees the
\* mutation at its next step.
AppendRecord(w) ==
    /\ workers[w].pc = "append"
    /\ events' = DequeAppend(events,
                     NewRecord(workers[w].args[1].user_id, workers[w].args[1].team_id,
                               workers[w].args[1].text, workers[w].now,
                               workers[w].args[1].correlation_id),
                     max_events)
    /\ workers' = [v \in Threads |->
          IF v = w
          THEN [workers[w] EXCEPT !.pc = "snapshot",
                  !.reply = Some([accepted |-> TRUE, message |-> MsgAccepted])]
          ELSE IF workers[v].pc = "scan"
          THEN [workers[v] EXCEPT !.stale = TRUE]
          ELSE workers[v]]
    /\ UNCHANGED <<config, engine, driver>>

\* return IntentResult(..., memory=self.store.recent())
Snapshot(w) ==
    /\ workers[w].pc = "snapshot"
    /\ workers' = [workers EXCEPT ![w].pc = "done",
          ![w].out = Some(IntentResult(workers[w].reply[1].accepted,
                                       workers[w].reply[1].message,
                                       Memory(events)))]
    /\ UNCHANGED <<config, events, engine, driver>>

\* The listener has sent its response (or logged the exception) and the
\* thread is free for the next event.
Return(w) ==
    /\ workers[w].pc \in {"done", "raised"}
    /\ workers' = [workers EXCEPT ![w] = Idle]
    /\ UNCHANGED <<config, events, engine, driver>>

\* An engine that trusts workspace T1, shared by the threads.
ConcInit ==
    /\ trusted_workspace_ids = <<"T1">>
    /\ \E d \in DurationChoices : cooldown = d[1] /\ duplicate_window = d[2]
    /\ max_events \in 1..MaxCapacity
    /\ events = <<>>
    /\ clock = 0
    /\ request = None
    /\ result = None
    /\ size_before = 0
    /\ appended = <<>>
    /\ store_out = None
    /\ last_accepted = [u \in Users |-> None]
    /\ workers = [w \in Threads |-> Idle]

\* Wall-clock time passes while the threads run.
ConcTick ==
    /\ clock < MaxConcTime
    /\ clock' = clock + 1
    /\ UNCHANGED <<config, events, last_call, driver, workers>>

ConcNext ==
    \/ ConcTick
    \/ \E w \in Threads, u \in Users, t \in Teams, x \in ConcTexts,
          c \in CorrelationIds : Enter(w, u, t, x, c)
    \/ \E w \in Threads : StartScan(w)
    \/ \E w \in Threads : ScanNext(w)
    \/ \E w \in Threads : AppendRecord(w)
    \/ \E w \in Threads : Snapshot(w)
    \/ \E w \in Threads : Return(w)

ConcSpec == ConcInit /\ [][ConcNext]_vars

\* ------------------------------ the engine with its acceptances remembered

\* handle_intent as in HandleIntent, with the record of an accepted intent
\* remembered for its user after the store has evicted it.
LoggedIntent(user_id, team_id, text, correlation_id) ==
    LET now == clock
        out == Outcome(events, now, user_id, team_id, text, correlation_id)
    IN  /\ events' = out.store
        /\ request' = Some([user_id |-> user_id, team_id |-> team_id,
                             text |-> text, correlation_id |-> correlation_id])
        /\ result' = Some(out.result)
        /\ size_before' = Len(events)
        /\ last_accepted' =
              IF out.result.accepted
              THEN [last_accepted EXCEPT ![user_id] =
                       Some(NewRecord(user_id, team_id, text, now, correlation_id))]
              ELSE last_accepted
        /\ UNCHANGED <<config, clock, appended, store_out, workers>>

LedgerNext ==
    \/ Tick
    \/ \E u \in Users, t \in Teams, x \in Texts, c \in CorrelationIds :
          LoggedIntent(u, t, x, c)

LedgerSpec == Init /\ [][LedgerNext]_vars

\* ------------------------------------- the engine on an arbitrary clock

\* An engine that trusts workspace T1 and whose injected clock may return
\* any value at any call.
SkewInit ==
    /\ trusted_workspace_ids = <<"T1">>
    /\ \E d \in SkewDurations : cooldown = d[1] /\ duplicate_window = d[2]
    /\ max_events \in 1..MaxCapacity
    /\ events = <<>>
    /\ clock = 0
    /\ request = None
    /\ result = None
    /\ size_before = 0
    /\ appended = <<>>
    /\ store_out = None
    /\ last_accepted = [u \in Users |-> None]
    /\ workers = [w \in Threads |-> Idle]

\* The clock is set forwards or backwards (VolitionCore(clock=...) takes
\* any callable; the wall clock can be stepped back).
SetClock(t) ==
    /\ t # clock
    /\ clock' = t
    /\ UNCHANGED <<config, events, last_call, driver, workers>>

SkewNext ==
    \/ \E t \in 0..MaxTime : SetClock(t)
    \/ \E u \in Users, x \in Texts, c \in CorrelationIds :
          HandleIntent(u, "T1", x, c)

SkewSpec == SkewInit /\ [][SkewNext]_vars

\* --------------------------------------- one user who keeps resubmitting

\* An engine that trusts workspace T1, with a store of room for up to
\* MaxRetryCapacity records.
RetryInit ==
    /\ trusted_workspace_ids = <<"T1">>
    /\ \E d \in RetryDurations : cooldown = d[1] /\ duplicate_window = d[2]
    /\ max_events \in 1..MaxRetryCapacity
    /\ events = <<>>
    /\ clock = 0
    /\ request = None
    /\ result = None
    /\ size_before = 0
    /\ appended = <<>>
    /\ store_out = None
    /\ last_accepted = [u \in Users |-> None]
    /\ workers = [w \in Threads |-> Idle]

\* The user sends an instruction again, the same or another one.
Resubmit ==
    \E x \in Texts, c \in CorrelationIds :
        LoggedIntent(Resubmitter, "T1", x, c)

RetryNext == Tick \/ Resubmit

\* The clock keeps advancing and the user keeps resubmitting.
RetrySpec ==
    RetryInit /\ [][RetryNext]_vars /\ WF_vars(Tick) /\ WF_vars(Resubmit)

\* ------------------------------------------- the Slack listeners (gabe_bot)

\* Python's None where a string is expected (dict.get of a missing key):
\* a value equal to no string.
PyNone == "<None>"

\* What event.get("user") and body.get("user_id") can return.
BodyUsers == {PyNone, "", "U1", "B1"}

\* body["authorizations"][0].get("user_id"): the bot's own user id.
BotUserIds == {PyNone, "B1"}

\* event.get("team", "") and body.get("team_id", "") of an event.
BodyTeams == {"", "T1"}

\* body.get("team_id") of a slash command.
CommandTeams == {PyNone, "T1"}

\* event.get("channel_type")
ChannelTypes == {"im", "channel"}

\* Raw texts; a mention <@B1> is one character of the model.
RawTexts == { <<>>, <<"<@B1>", " ", "X">> }

\* `not v` for a string or None.
Falsy(v) == v \in {PyNone, ""}

\* The mention markup of a user id.
MentionOf(user_id) == "<@" \o user_id \o ">"

\* sanitise_text(raw_text, bot_user_id)
SanitiseText(raw_text, bot_user_id) ==
    IF raw_text = <<>> THEN <<>>
    ELSE IF ~Falsy(bot_user_id)
    THEN Strip(SelectSeq(raw_text, LAMBDA ch : ch # MentionOf(bot_user_id)))
    ELSE Strip(raw_text)

\* event.get("team", "") or body.get("team_id", "")
TeamOf(event_team, body_team) ==
    IF ~Falsy(event_team) THEN event_team ELSE body_team

\* @app.event("app_mention")
HandleAppMention(bot_user_id, raw_text, event_team, body_team, user_id, cid) ==
    IF Falsy(user_id)
    THEN UNCHANGED vars
    ELSE HandleIntent(user_id, TeamOf(event_team, body_team),
                      SanitiseText(raw_text, bot_user_id), cid)

\* @app.event("message")
HandleDm(channel_type, bot_user_id, raw_text, event_team, body_team, user_id, cid) ==
    IF channel_type # "im" THEN UNCHANGED vars
    ELSE IF user_id = bot_user_id THEN UNCHANGED vars
    ELSE IF Falsy(user_id) THEN UNCHANGED vars
    ELSE HandleIntent(user_id, TeamOf(event_team, body_team),
                      SanitiseText(raw_text, bot_user_id), cid)

\* @app.command("/gabe"): the body's fields are passed on as they are.
HandleSlashCommand(user_id, team_id, text, cid) ==
    HandleIntent(user_id, team_id, text, cid)

\* Wall-clock time passes between two events.
BotTick ==
    /\ clock < MaxBotTime
    /\ clock' = clock + 1
    /\ UNCHANGED <<config, events, last_call, driver, workers>>

BotNext ==
    \/ BotTick
    \/ \E b \in BotUserIds, x \in RawTexts, et \in BodyTeams, bt \in BodyTeams,
          u \in BodyUsers, c \in CorrelationIds :
          HandleAppMention(b, x, et, bt, u, c)
    \/ \E ct \in ChannelTypes, b \in BotUserIds, x \in RawTexts,
          et \in BodyTeams, bt \in BodyTeams, u \in BodyUsers,
          c \in CorrelationIds :
          HandleDm(ct, b, x, et, bt, u, c)
    \/ \E u \in BodyUsers, t \in CommandTeams, x \in RawTexts,
          c \in CorrelationIds :
          HandleSlashCommand(u, t, x, c)

\* build_app: the listeners registered on one engine.
BotSpec == Init /\ [][BotNext]_vars

\* ================================================================ claims

\* |a - b|
Distance(a, b) == IF a >= b THEN a - b ELSE b - a

\* The record a call with the arguments req appends at clock value now.
RecordOf(req, now) ==
    [user_id |-> req.user_id, team_id |-> req.team_id, text |-> req.text,
     timestamp |-> now, correlation_id |-> req.correlation_id]

\* C1: handle_intent is an atomic critical section over the clock read,
\* the store read and the conditional append: two concurrent calls for the
\* same user whose clock readings are within the cooldown of each other
\* are never both accepted.  Stated of two threads that have both finished
\* a call and whose records are both in the store: in any serial order the
\* later call finds the earlier record and is rejected.
C1_NeverBothAccepted ==
    \A w1, w2 \in Threads :
        ( /\ w1 # w2
          /\ workers[w1].pc = "done" /\ workers[w2].pc = "done"
          /\ workers[w1].args[1].user_id = workers[w2].args[1].user_id
          /\ Distance(workers[w1].now, workers[w2].now) <= cooldown
          /\ \E i, j \in 1..Len(events) :
                /\ i # j
                /\ events[i] = RecordOf(workers[w1].args[1], workers[w1].now)
                /\ events[j] = RecordOf(workers[w2].args[1], workers[w2].now) )
        => ~(workers[w1].out[1].accepted /\ workers[w2].out[1].accepted)

\* The last k elements of a sequence.
LastK(s, k) == SubSeq(s, Len(s) - k + 1, Len(s))

\* The positions of user_id's records in a store.
PositionsOf(evs, user_id) == {i \in 1..Len(evs) : evs[i].user_id = user_id}

\* C2: for a store of capacity C, after any sequence of append calls the
\* store holds at most C records, and they are the most recently appended
\* ones in insertion order: each append on a full store has dropped exactly
\* the oldest record and kept the others in place.
C2_BoundedFifo ==
    /\ Len(events) <= max_events
    /\ events = LastK(appended, Min(max_events, Len(appended)))

\* C2 witness: a store of capacity at least 2 that has overflowed twice.
C2_Witness ==
    /\ max_events >= 2
    /\ Len(appended) >= max_events + 2
    /\ Len(events) = max_events

\* C3 as stated: recent(n) returns the appended records newest first and
\* its length is min(n, number of records appended so far).
C3_RecentLengthOfTotal ==
    \A o \in {store_out[i] : i \in 1..Len(store_out)} :
        o.op = "recent" =>
            /\ Len(o.out) = Min(o.arg, Len(appended))
            /\ o.out = SliceTo(Reverse(appended), o.arg)

\* C3 amended: recent(n) returns the appended records newest first and its
\* length is min(n, number of records appended so far, capacity): records
\* evicted by the capacity bound are not returned.
C3_RecentNewestFirst ==
    \A o \in {store_out[i] : i \in 1..Len(store_out)} :
        o.op = "recent" =>
            /\ Len(o.out) = Min(o.arg, Min(Len(appended), max_events))
            /\ o.out = SliceTo(Reverse(appended), Min(o.arg, max_events))

\* C3 witness: recent(n) asked for more records than the capacity, on a
\* store that has evicted records, and returned at least two records.
C3_Witness ==
    /\ store_out # None
    /\ store_out[1].op = "recent"
    /\ store_out[1].arg > max_events
    /\ Len(appended) > max_events
    /\ Len(store_out[1].out) >= 2

\* C4: last_for_user(u) returns the most recently appended record still in
\* the store whose user_id is u, whatever records of other users lie
\* before, between or after, and returns None exactly when the store holds
\* no record of u.
C4_LastForUser ==
    \A o \in {store_out[i] : i \in 1..Len(store_out)} :
        o.op = "last_for_user" =>
            LET pos == PositionsOf(events, o.arg)
            IN  /\ (o.out = None) <=> (pos = {})
                /\ pos # {} =>
                      \E i \in pos :
                          /\ \A j \in pos : j <= i
                          /\ o.out = Some(events[i])
                          /\ \A j \in pos :
                                events[j].timestamp <= events[i].timestamp

\* C4 witness: last_for_user(u) returned a record of u that has another
\* user's record after it and an older record of u before it.
C4_Witness ==
    /\ store_out # None
    /\ store_out[1].op = "last_for_user"
    /\ store_out[1].out # None
    /\ \E i, j, k \in 1..Len(events) :
          /\ i < j /\ j < k
          /\ events[i].user_id = store_out[1].arg
          /\ events[j] = store_out[1].out[1]
          /\ events[k].user_id # store_out[1].arg

\* The vocabulary of the claims about one handle_intent call.

\* The last record of user_id in a store, or None.
LatestOf(evs, user_id) ==
    IF PositionsOf(evs, user_id) = {} THEN None
    ELSE Some(evs[CHOOSE i \in PositionsOf(evs, user_id) :
                      \A j \in PositionsOf(evs, user_id) : j <= i])

IsTrusted(team_id) ==
    trusted_workspace_ids = <<>>
        \/ team_id \in {trusted_workspace_ids[i] : i \in 1..Len(trusted_workspace_ids)}

SameTrimmedText(record, text) == Strip(record.text) = Strip(text)

\* The step is a handle_intent call, the one request' describes.
CallStep ==
    /\ request' # None
    /\ HandleIntent(request'[1].user_id, request'[1].team_id,
                    request'[1].text, request'[1].correlation_id)

\* C5: when the trusted-workspace set is non-empty and team_id is not in
\* it, handle_intent returns accepted=false with the trusted-workspaces
\* message and leaves the store unchanged, whatever the user's history, the
\* text and the time.
C5_UntrustedRejected ==
    [][(CallStep /\ ~IsTrusted(request'[1].team_id)) =>
          /\ events' = events
          /\ result'[1].accepted = FALSE
          /\ result'[1].message = MsgUntrusted]_vars

\* C5 witness: a trust rejection of a request that repeats the text of the
\* user's last record at the very time of that record: the duplicate and
\* the cooldown rule would both have applied.
C5_Witness ==
    /\ request # None /\ result # None
    /\ result[1].message = MsgUntrusted
    /\ LatestOf(events, request[1].user_id) # None
    /\ LatestOf(events, request[1].user_id)[1].text = request[1].text
    /\ LatestOf(events, request[1].user_id)[1].timestamp = clock

\* C6: for a request from a trusted workspace, if the user's most recent
\* stored record has the same trimmed text and now - last.timestamp <=
\* duplicate_window (boundary included), handle_intent returns
\* accepted=false with the duplicate message and the store is unchanged.
C6_DuplicateRejected ==
    [][LET last == LatestOf(events, request'[1].user_id)
       IN  ( /\ CallStep
             /\ IsTrusted(request'[1].team_id)
             /\ last # None
             /\ SameTrimmedText(last[1], request'[1].text)
             /\ clock - last[1].timestamp <= duplicate_window ) =>
           /\ events' = events
           /\ result'[1].accepted = FALSE
           /\ result'[1].message = MsgDuplicate]_vars

\* C6 witness: a duplicate rejection on the boundary of a window longer
\* than the cooldown, of a text that differs from the stored one in
\* whitespace only.
C6_Witness ==
    /\ request # None /\ result # None
    /\ result[1].message = MsgDuplicate
    /\ duplicate_window > cooldown
    /\ LET last == LatestOf(events, request[1].user_id)[1]
       IN  /\ clock - last.timestamp = duplicate_window
           /\ last.text # request[1].text

\* C7: for a request from a trusted workspace that is not a duplicate, if
\* the user's most recent record has now - last.timestamp <= cooldown
\* (boundary included), handle_intent returns accepted=false with the
\* message reporting floor(cooldown - (now - last.timestamp)) whole seconds,
\* and the store is unchanged; cooldown 45 s and elapsed 20 s give 25.
C7_CooldownRejected ==
    /\ [](RemainingSeconds([timestamp |-> 0], 20 * TicksPerSecond,
                            45 * TicksPerSecond) = 25)
    /\ [][LET last == LatestOf(events, request'[1].user_id)
          IN  ( /\ CallStep
                /\ IsTrusted(request'[1].team_id)
                /\ last # None
                /\ ~( SameTrimmedText(last[1], request'[1].text)
                      /\ clock - last[1].timestamp <= duplicate_window )
                /\ clock - last[1].timestamp <= cooldown ) =>
              /\ events' = events
              /\ result'[1].accepted = FALSE
              /\ \E whole \in 0..cooldown :
                    /\ whole * TicksPerSecond
                          <= cooldown - (clock - last[1].timestamp)
                    /\ cooldown - (clock - last[1].timestamp)
                          < (whole + 1) * TicksPerSecond
                    /\ result'[1].message = MsgCooldown(whole)]_vars

\* C7 witness: a cooldown rejection with a fraction of a second of the
\* cooldown left, reported as 0 whole seconds.
C7_Witness ==
    /\ request # None /\ result # None
    /\ result[1].message = MsgCooldown(0)
    /\ LET last == LatestOf(events, request[1].user_id)[1]
       IN  /\ cooldown - (clock - last.timestamp) > 0
           /\ cooldown - (clock - last.timestamp) < TicksPerSecond

\* The call is accepted: its record is the newest of the store and the
\* first of the memory.
Accepted ==
    /\ result'[1].accepted = TRUE
    /\ result'[1].message = MsgAccepted
    /\ events' # <<>>
    /\ events'[Len(events')] = RecordOf(request'[1], clock)
    /\ result'[1].memory # <<>>
    /\ result'[1].memory[1] = RecordOf(request'[1], clock)

\* C8 as stated: in every reachable store state, a store at capacity
\* included, a call from a trusted workspace for a user with no record in
\* the store is accepted, the store size increases by 1, and memory[0] is
\* the new record with the given fields and the clock value.
C8_AcceptGrowsStore ==
    [][( /\ CallStep
         /\ IsTrusted(request'[1].team_id)
         /\ LatestOf(events, request'[1].user_id) = None ) =>
           /\ Accepted
           /\ Len(events') = Len(events) + 1]_vars

\* C8 amended: such a call is accepted and memory[0] is the new record; the
\* store size increases by 1 when the store is below its capacity, and
\* stays at the capacity when the store is full, the oldest record being
\* evicted (for a capacity of at least 1).
C8_AcceptAppends ==
    [][( /\ CallStep
         /\ IsTrusted(request'[1].team_id)
         /\ LatestOf(events, request'[1].user_id) = None ) =>
           /\ Accepted
           /\ Len(events) < max_events => Len(events') = Len(events) + 1
           /\ Len(events) = max_events =>
                 /\ Len(events') = max_events
                 /\ \A i \in 1..(max_events - 1) : events'[i] = events[i + 1]]_vars

\* C8 witness: a call accepted on a full store of capacity 1 at a time when
\* any record of the caller would still have been inside the cooldown: the
\* store was at capacity, held no record of the caller, and dropped its
\* record for the new one.
C8_Witness ==
    /\ request # None /\ result # None
    /\ result[1].accepted
    /\ max_events = 1
    /\ size_before = 1
    /\ clock <= cooldown
    /\ events = <<RecordOf(request[1], clock)>>

\* C9: whichever branch a handle_intent call takes, the returned memory is
\* store.recent() with the default limit 5 on the store after the call: at
\* most 5 records, newest first, with the record just appended first on
\* acceptance, and equal to the snapshot before the call on rejection.
C9_MemoryIsSnapshotAfter ==
    [][CallStep =>
          LET memory == result'[1].memory
          IN  /\ Len(memory) = Min(5, Len(events'))
              /\ \A i \in 1..Len(memory) :
                    memory[i] = events'[Len(events') + 1 - i]
              /\ result'[1].accepted =>
                    memory[1] = RecordOf(request'[1], clock)
              /\ ~result'[1].accepted =>
                    /\ events' = events
                    /\ Len(memory) = Min(5, Len(events))
                    /\ \A i \in 1..Len(memory) :
                          memory[i] = events[Len(events) + 1 - i]]_vars

\* C9 witness: an accepted call on a store that held more than 5 records:
\* the memory is cut to 5 records and starts with the new one.
C9_Witness ==
    /\ request # None /\ result # None
    /\ result[1].accepted
    /\ size_before > 5
    /\ Len(result[1].memory) = 5
    /\ result[1].memory[1] = events[Len(events)]
    /\ events[Len(events)] = RecordOf(request[1], clock)

\* C10: with an empty trusted-workspace set no handle_intent call is
\* rejected by the trust rule, for any team_id, the empty string included:
\* the call is rejected exactly when the duplicate or the cooldown rule
\* applies to the user's most recent record.
C10_EmptySetTrustsAll ==
    [][(trusted_workspace_ids = <<>> /\ CallStep) =>
          LET last == LatestOf(events, request'[1].user_id)
              blocked ==
                  /\ last # None
                  /\ \/ /\ SameTrimmedText(last[1], request'[1].text)
                        /\ clock - last[1].timestamp <= duplicate_window
                     \/ clock - last[1].timestamp <= cooldown
          IN  /\ result'[1].message # MsgUntrusted
              /\ result'[1].accepted <=> ~blocked]_vars

\* C10 witness: an engine with no trusted set has accepted an intent whose
\* team_id is the empty string.
C10_Witness ==
    /\ trusted_workspace_ids = <<>>
    /\ request # None /\ result # None
    /\ result[1].accepted
    /\ request[1].team_id = ""
    /\ events[Len(events)].team_id = ""

\* C11: handle_intent never raises: under any interleaving with other
\* calls on the same engine every call runs to completion and returns one
\* IntentResult; the store operations never fail.  No thread is ever at an
\* exception, and every finished call holds a result with one of the four
\* outcomes.
C11_NeverRaises ==
    \A w \in Threads :
        /\ workers[w].pc # "raised"
        /\ workers[w].pc = "done" =>
              /\ workers[w].out # None
              /\ workers[w].out[1].message.template \in
                    { MsgAccepted.template, MsgUntrusted.template,
                      MsgDuplicate.template, MsgCooldown(0).template }

\* C12: on every inbound path (app_mention, direct message, /gabe) an
\* event with a missing or empty user_id is dropped before handle_intent is
\* invoked: no call is made, and no record is stored, with an absent or
\* empty user_id.
C12_UserIdNeverEmpty ==
    /\ request # None => ~Falsy(request[1].user_id)
    /\ \A i \in 1..Len(events) : ~Falsy(events[i].user_id)

\* C13: recent and last_for_user are read-only and idempotent: a call of
\* either leaves the store unchanged, and a call made directly after a call
\* of the same operation with the same argument, with no append between,
\* returns the same result.
C13_ReadsAreIdempotent ==
    /\ []( ( /\ store_out # None
              /\ store_out[1].op \in {"recent", "last_for_user"}
              /\ store_out[1].prev # None
              /\ store_out[1].prev[1].op = store_out[1].op
              /\ store_out[1].prev[1].arg = store_out[1].arg )
            => store_out[1].out = store_out[1].prev[1].out )
    /\ [][( /\ store_out' # None
             /\ store_out'[1].op \in {"recent", "last_for_user"} )
           => events' = events]_vars

\* C13 witness: recent(n) called twice in a row on a store holding records
\* of both users, returning at least two records.
C13_Witness ==
    /\ store_out # None
    /\ store_out[1].op = "recent"
    /\ store_out[1].prev # None
    /\ store_out[1].prev[1].op = "recent"
    /\ store_out[1].prev[1].arg = store_out[1].arg
    /\ Len(store_out[1].out) >= 2
    /\ store_out[1].out[1].user_id # store_out[1].out[2].user_id

\* The step is a handle_intent call of LedgerSpec, the one request' describes.
LoggedStep ==
    /\ request' # None
    /\ LoggedIntent(request'[1].user_id, request'[1].team_id,
                    request'[1].text, request'[1].correlation_id)

\* C14 as stated: after an intent of user u is accepted at t0, a call of u
\* with the same trimmed text at a time t with t - t0 <= duplicate_window is
\* rejected as a duplicate and the store is unchanged, for any number of
\* calls of other users in between and any capacity >= 1.
C14_DuplicateSurvivesTraffic ==
    [][LET prev == last_accepted[request'[1].user_id]
       IN  ( /\ LoggedStep
             /\ IsTrusted(request'[1].team_id)
             /\ prev # None
             /\ SameTrimmedText(prev[1], request'[1].text)
             /\ clock - prev[1].timestamp <= duplicate_window ) =>
           /\ events' = events
           /\ result'[1].accepted = FALSE
           /\ result'[1].message = MsgDuplicate]_vars

\* C14 amended: such a call is rejected as a duplicate, with the store
\* unchanged, for any number of calls of other users in between, as long as
\* the record of the accepted intent is still in the store (the intents
\* accepted since have not evicted it).
C14_DuplicateWhileStored ==
    [][LET prev == last_accepted[request'[1].user_id]
       IN  ( /\ LoggedStep
             /\ IsTrusted(request'[1].team_id)
             /\ prev # None
             /\ \E i \in 1..Len(events) : events[i] = prev[1]
             /\ SameTrimmedText(prev[1], request'[1].text)
             /\ clock - prev[1].timestamp <= duplicate_window ) =>
           /\ events' = events
           /\ result'[1].accepted = FALSE
           /\ result'[1].message = MsgDuplicate]_vars

\* C14 witness: a duplicate rejection of a user whose accepted record has
\* the record of another user, accepted later, after it in the store.
C14_Witness ==
    /\ request # None /\ result # None
    /\ result[1].message = MsgDuplicate
    /\ Len(events) = 2
    /\ last_accepted[request[1].user_id] = Some(events[1])
    /\ events[2].user_id # request[1].user_id
    /\ clock > events[1].timestamp

\* C15: the rules are applied in the order trust, duplicate, cooldown,
\* accept, and the first that matches decides: an untrusted request gets
\* the trust message whatever the history; a trusted request with the
\* trimmed text of the user's last record inside both the duplicate window
\* and the cooldown gets the duplicate message, never the cooldown one; a
\* trusted request with another text inside the cooldown gets the cooldown
\* message, also when the duplicate window has not elapsed.
C15_FirstRuleDecides ==
    [][CallStep =>
          LET last == LatestOf(events, request'[1].user_id)
              elapsed == clock - last[1].timestamp
          IN  /\ ~IsTrusted(request'[1].team_id) =>
                    result'[1].message = MsgUntrusted
              /\ ( /\ IsTrusted(request'[1].team_id)
                    /\ last # None
                    /\ SameTrimmedText(last[1], request'[1].text)
                    /\ elapsed <= duplicate_window
                    /\ elapsed <= cooldown ) =>
                    result'[1].message = MsgDuplicate
              /\ ( /\ IsTrusted(request'[1].team_id)
                    /\ last # None
                    /\ ~SameTrimmedText(last[1], request'[1].text)
                    /\ elapsed <= cooldown ) =>
                    /\ result'[1].accepted = FALSE
                    /\ result'[1].message.template = MsgCooldown(0).template]_vars

\* C15 witness: a duplicate rejection of a request that was inside the
\* cooldown as well, some time after the accepted intent.
C15_Witness ==
    /\ request # None /\ result # None
    /\ result[1].message = MsgDuplicate
    /\ LET last == LatestOf(events, request[1].user_id)[1]
       IN  /\ clock > last.timestamp
           /\ clock - last.timestamp <= cooldown
           /\ clock - last.timestamp <= duplicate_window

\* C16: insertion order is chronological acceptance order: with a clock
\* that never goes back, the timestamps of the stored records are
\* non-decreasing from oldest to newest in every reachable state, calls of
\* concurrent callers that overlap in time included.
C16_TimestampsOrdered ==
    \A i, j \in 1..Len(events) :
        i < j => events[i].timestamp <= events[j].timestamp

\* C17: with serialized calls and any clock, one that moves backwards
\* included, two records of the same user that are adjacent among that
\* user's records in the store are more than cooldown apart, the newer one
\* later, and more than duplicate_window apart when their trimmed texts are
\* equal; a call at a clock value earlier than the timestamp of the user's
\* last record is rejected.
C17_Spacing ==
    /\ [](\A i, j \in 1..Len(events) :
             ( /\ i < j
               /\ events[i].user_id = events[j].user_id
               /\ \A k \in (i + 1)..(j - 1) :
                     events[k].user_id # events[i].user_id ) =>
             /\ events[j].timestamp - events[i].timestamp > cooldown
             /\ SameTrimmedText(events[i], events[j].text) =>
                   events[j].timestamp - events[i].timestamp > duplicate_window)
    /\ [][LET last == LatestOf(events, request'[1].user_id)
          IN  ( /\ CallStep
                /\ IsTrusted(request'[1].team_id)
                /\ last # None
                /\ clock < last[1].timestamp ) =>
              /\ events' = events
              /\ result'[1].accepted = FALSE]_vars

\* C17 witness: a store holding two records of one user, and a call of that
\* user rejected at a clock value earlier than the newer of them.
C17_Witness ==
    /\ request # None /\ result # None
    /\ result[1].accepted = FALSE
    /\ Len(events) = 2
    /\ events[1].user_id = request[1].user_id
    /\ events[2].user_id = request[1].user_id
    /\ clock < events[2].timestamp
    /\ IsTrusted(request[1].team_id)

\* The time a call at the present clock value finds elapsed since record.
ElapsedSince(record) == clock - record.timestamp

\* C18: rejected calls do not extend any window: a rejection changes
\* neither the store nor the user's last accepted record, so a call is
\* accepted exactly when the time elapsed since the last accepted intent
\* exceeds cooldown (and duplicate_window when the trimmed text is the
\* same), whatever attempts were rejected in between; and a user who keeps
\* resubmitting while the clock advances is eventually accepted again.
C18_RejectionsDoNotExtend ==
    /\ [][LoggedStep =>
             LET prev == last_accepted[request'[1].user_id]
             IN  /\ result'[1].accepted <=>
                       \/ prev = None
                       \/ /\ ElapsedSince(prev[1]) > cooldown
                          /\ SameTrimmedText(prev[1], request'[1].text) =>
                                ElapsedSince(prev[1]) > duplicate_window
                 /\ ~result'[1].accepted =>
                       /\ events' = events
                       /\ last_accepted' = last_accepted]_vars
    /\ \A t0 \in 0..MaxTime :
          ( /\ last_accepted[Resubmitter] # None
            /\ last_accepted[Resubmitter][1].timestamp = t0
            /\ t0 + Max(cooldown, duplicate_window) < MaxTime )
          ~> ( /\ last_accepted[Resubmitter] # None
               /\ last_accepted[Resubmitter][1].timestamp > t0 )

\* C18 witness: an intent accepted at the first clock value outside the
\* duplicate window of the user's previous intent, which has the same
\* trimmed text, the window being longer than the cooldown.
C18_Witness ==
    /\ request # None /\ result # None
    /\ result[1].accepted
    /\ duplicate_window > cooldown
    /\ Len(events) >= 2
    /\ SameTrimmedText(events[Len(events) - 1], events[Len(events)].text)
    /\ events[Len(events)].timestamp = clock
    /\ clock - events[Len(events) - 1].timestamp = duplicate_window + 1

\* C19: the duplicate rule compares a request with the user's most recent
\* stored record only: a request whose text differs from that record's and
\* that is outside its cooldown is accepted, whatever older records of the
\* user the store holds, one with the same trimmed text inside the
\* duplicate window included.
C19_OnlyLastRecordCompared ==
    [][LET last == LatestOf(events, request'[1].user_id)
       IN  ( /\ LoggedStep
             /\ IsTrusted(request'[1].team_id)
             /\ last # None
             /\ ~SameTrimmedText(last[1], request'[1].text)
             /\ ElapsedSince(last[1]) > cooldown ) =>
           /\ result'[1].accepted
           /\ events'[Len(events')] = RecordOf(request'[1], clock)]_vars

\* C19 witness: the store holds three accepted records of one user, X, Y
\* and X again, the two X no more than duplicate_window apart.
C19_Witness ==
    /\ Len(events) = 3
    /\ \A i \in 1..3 : events[i].user_id = Resubmitter
    /\ SameTrimmedText(events[1], events[3].text)
    /\ ~SameTrimmedText(events[1], events[2].text)
    /\ events[1].timestamp <= events[2].timestamp
    /\ events[2].timestamp <= events[3].timestamp
    /\ events[3].timestamp - events[1].timestamp <= duplicate_window

\* C20: when the trusted-workspace set is non-empty and the store is
\* written through handle_intent only, every record in the store, and so
\* every record of a returned memory, has a team_id of the trusted set.
C20_StoredTeamsTrusted ==
    trusted_workspace_ids # <<>> =>
        /\ \A i \in 1..Len(events) :
              InTuple(events[i].team_id, trusted_workspace_ids)
        /\ result # None =>
              \A i \in 1..Len(result[1].memory) :
                  InTuple(result[1].memory[i].team_id, trusted_workspace_ids)

\* C20 witness: an engine with a trusted set whose store is full of
\* records of both users has just rejected a request of another workspace.
C20_Witness ==
    /\ trusted_workspace_ids # <<>>
    /\ request # None /\ result # None
    /\ result[1].message = MsgUntrusted
    /\ ~InTuple(request[1].team_id, trusted_workspace_ids)
    /\ Len(events) = 2
    /\ events[1].user_id # events[2].user_id
    /\ Len(result[1].memory) = 2

====
